---- MODULE Spec2Model ----
(***************************************************************************)
(* TextSearcher (src/text_searcher.py): the SearchThread worker, its       *)
(* cooperative cancellation by stop(), the per-file encoding fallback      *)
(* chain, the two line scanners (_search_normal, _search_with_context),    *)
(* the LogicalExpressionParser, the KeywordHistory and the result pipeline *)
(* of the KeywordSearchApp window.                                         *)
(*                                                                         *)
(* A text is a sequence of one-character strings.  The files under         *)
(* self.target are the variable tree: the directories in os.walk order,    *)
(* each a sequence of files, each file a record [name, lines].  Errors of  *)
(* the file system and of the codecs (an OSError, a UnicodeDecodeError, a  *)
(* LookupError) are inputs of the step that opens or reads; the variable   *)
(* faults bounds how many of them one run meets.                           *)
(*                                                                         *)
(* Spec and FairSpec are the jobs in plain mode over the trees of Trees;   *)
(* ModeSpec is the same worker over small targets with every form of the   *)
(* file filter, of the keyword and of the logical expressions; HistorySpec *)
(* is the calls of add_keyword and add_ignore_keyword on HISTORY_FILE;     *)
(* LossySpec is the worker under errors enough for every candidate         *)
(* encoding of a file to fail; UISpec is the window: its clicks, the       *)
(* threads it creates and the handlers of their queued signals.            *)
(***************************************************************************)
EXTENDS Integers, Sequences, FiniteSets, TLC

\* ------------------------------------------------------------------ bounds
MaxDirs == 2        \* directories os.walk yields
MaxFiles == 2       \* files under the target, all directories together
MaxLines == 3       \* lines under the target, all files together
MaxContext == 2     \* largest context_lines of a job
MaxFaults == 1      \* open/read errors one job meets
MaxCalls == 2       \* calls of add_keyword / add_ignore_keyword in one run
MaxRetryFaults == 6 \* open/read errors one job of LossySpec meets
MaxJobs == 2        \* SearchThread objects one window creates
MaxResults == 5     \* search_progress signals one thread of UISpec emits
\* the window's batch_size (100) and max_display_results (5000), scaled to the
\* results of a thread: a whole number of batches fills the display
batch_size == 2
max_display_results == 4

MAX_HISTORY == 20

\* ------------------------------------------------------------------ inputs
LineTexts == {<<"a">>, <<"k">>, <<"k", "i">>}
Keywords == {<<"k">>}
IgnoreKeywords == {<<>>, <<"i">>}
FileNames == {<<"a">>, <<"b">>}
FileFilters == {<<>>, <<"b">>}
\* what chardet.detect reports for the first 10000 bytes ("" for None)
Detected == {"", "utf-8", "ascii", "GB2312"}

VARIABLES
    tree,             \* the files under self.target, as os.walk yields them
    is_folder,        \* self.is_folder
    keyword,          \* self.keyword
    is_logical,       \* the keyword is a logical expression
    ignore_keyword,   \* self.ignore_keyword
    file_filter,      \* self.file_filter
    context_lines,    \* self.context_lines
    is_running,       \* self._is_running
    pc,               \* where the worker thread stands
    result_count,     \* run()'s result_count
    d,                \* position of the os.walk loop (index of root)
    f,                \* position of the for-file loop in files
    encodings,        \* _search_file's list before its de-duplication
    unique_encodings, \* _search_file's candidate list
    enc,              \* index of the attempt in unique_encodings
    fpos,             \* lines consumed from the open stream f
    line_number,      \* enumerate's counter
    rc,               \* result_count local to the running scanner
    context_buffer,   \* deque(maxlen=context_lines) of (line_number, line)
    collected,        \* read-ahead: following lines collected
    future_lines,     \* read-ahead: the following lines
    emitted,          \* every signal the job emitted, in order
    started,          \* every call of _search_file: the file, the flag at the
                      \* call, the encodings given up so far
    unchecked,        \* lines read with no check of the flag after them
    halted,           \* a scan returned because a check found the flag cleared
    faults,           \* errors the environment may still raise
    history,          \* the document in HISTORY_FILE: keywords, ignore_keywords
    added,            \* the last call of add_keyword / add_ignore_keyword
    calls,            \* calls of add_keyword / add_ignore_keyword so far
    selected_target,  \* the window has the attribute selected_target
    search_thread,    \* self.search_thread: 0 for None, else a thread of threads
    threads,          \* the SearchThread objects the window created, in order
    queue,            \* the signals queued for the window's thread, in order
    result_buffer,    \* self.result_buffer
    display_count,    \* self.display_count
    is_display_limited, \* self.is_display_limited
    result_box,       \* the paragraphs of self.result_box, in order
    received          \* the results on_search_progress was called with, this job

vars == <<tree, is_folder, keyword, is_logical, ignore_keyword, file_filter,
          context_lines, is_running, pc, result_count, d, f, encodings,
          unique_encodings, enc, fpos, line_number, rc, context_buffer, collected, future_lines,
          emitted, started, unchecked, halted, faults, history, added, calls,
          selected_target, search_thread, threads, queue, result_buffer,
          display_count, is_display_limited, result_box, received>>

config == <<tree, is_folder, keyword, is_logical, ignore_keyword, file_filter,
            context_lines>>
\* the KeywordSearchApp window
ui == <<selected_target, search_thread, threads, queue, result_buffer,
        display_count, is_display_limited, result_box, received>>
app == <<history, added, calls, ui>>
job == <<config, is_running, pc, result_count, d, f, encodings, unique_encodings,
         enc, fpos, line_number, rc, context_buffer, collected, future_lines,
         emitted, started, unchecked, halted>>
scanner == <<fpos, line_number, rc, context_buffer, collected, future_lines>>

\* ------------------------------------------------------------- pure helpers
SeqsUpTo(S, n) == UNION {[1..m -> S] : m \in 0..n}

RECURSIVE SumSeq(_)
SumSeq(s) == IF s = <<>> THEN 0 ELSE Head(s) + SumSeq(Tail(s))

\* Python's `kw in text` on strings
Contains(text, kw) ==
    \E i \in 0..(Len(text) - Len(kw)) : SubSeq(text, i + 1, i + Len(kw)) = kw

\* Python's str.strip() on a text
RECURSIVE LStrip(_)
LStrip(s) == IF s # <<>> /\ Head(s) = " " THEN LStrip(Tail(s)) ELSE s

RECURSIVE RStrip(_)
RStrip(s) ==
    IF s # <<>> /\ s[Len(s)] = " " THEN RStrip(SubSeq(s, 1, Len(s) - 1)) ELSE s

Strip(s) == RStrip(LStrip(s))

\* ------------------------------------------------- LogicalExpressionParser
\* An expression is a text over letters, the space and the characters below.
Q == "\""
SQ == "'"
NonWord == {" ", Q, SQ, "(", ")", "!", "&", "|"}

\* the regular expression class \w, on the characters of an expression
IsWord(c) == c \notin NonWord

\* the regular expression \b matches before position i of s
Boundary(s, i) ==
    (i - 1 \in DOMAIN s /\ IsWord(s[i - 1])) # (i \in DOMAIN s /\ IsWord(s[i]))

\* the word w stands at position i of s
At(s, i, w) == i + Len(w) - 1 <= Len(s) /\ SubSeq(s, i, i + Len(w) - 1) = w

\* \s* from position i of s: the position after the spaces
RECURSIVE SkipSpaces(_, _)
SkipSpaces(s, i) == IF i <= Len(s) /\ s[i] = " " THEN SkipSpaces(s, i + 1) ELSE i

\* the first position from i of s that holds c, 0 when there is none
RECURSIVE Find(_, _, _)
Find(s, i, c) ==
    IF i > Len(s) THEN 0 ELSE IF s[i] = c THEN i ELSE Find(s, i + 1, c)

\* re.sub(r'\bw\b', rep, s), from position i
RECURSIVE sub_word(_, _, _, _)
sub_word(s, i, w, rep) ==
    IF i > Len(s) THEN <<>>
    ELSE IF At(s, i, w) /\ Boundary(s, i) /\ Boundary(s, i + Len(w))
         THEN rep \o sub_word(s, i + Len(w), w, rep)
         ELSE <<s[i]>> \o sub_word(s, i + 1, w, rep)

\* re.sub(r'\bnot\s*\(', '!', s), from position i
RECURSIVE sub_not(_, _)
sub_not(s, i) ==
    IF i > Len(s) THEN <<>>
    ELSE LET j == SkipSpaces(s, i + 3)
         IN IF At(s, i, <<"n", "o", "t">>) /\ Boundary(s, i) /\ j <= Len(s) /\ s[j] = "("
            THEN <<"!">> \o sub_not(s, j + 1)
            ELSE <<s[i]>> \o sub_not(s, i + 1)

\* LogicalExpressionParser._preprocess
preprocess(expr) ==
    sub_not(sub_word(sub_word(expr, 1, <<"a", "n", "d">>, <<" ", "&", " ">>),
                     1, <<"o", "r">>, <<" ", "|", " ">>), 1)

InText == <<" ", "i", "n", " ", "t", "e", "x", "t", ")">>
NotInText == <<" ", "n", "o", "t">> \o InText

\* re.sub(r'!\s*\(\s*"([^"]*)"\s*\)', r'("\1" not in text)', s), from position
\* i, for the quote character q
RECURSIVE sub_not_literal(_, _, _)
sub_not_literal(s, i, q) ==
    IF i > Len(s) THEN <<>>
    ELSE LET j1 == SkipSpaces(s, i + 1)
             j2 == SkipSpaces(s, j1 + 1)
             j3 == Find(s, j2 + 1, q)
             j4 == SkipSpaces(s, j3 + 1)
         IN IF /\ s[i] = "!"
               /\ j1 <= Len(s) /\ s[j1] = "("
               /\ j2 <= Len(s) /\ s[j2] = q
               /\ j3 # 0
               /\ j4 <= Len(s) /\ s[j4] = ")"
            THEN <<"(", q>> \o SubSeq(s, j2 + 1, j3 - 1) \o <<q>> \o NotInText
                 \o sub_not_literal(s, j4 + 1, q)
            ELSE <<s[i]>> \o sub_not_literal(s, i + 1, q)

\* re.sub(r'!\s*\(([^)]+)\)', r'not (\1)', s), from position i
RECURSIVE sub_not_group(_, _)
sub_not_group(s, i) ==
    IF i > Len(s) THEN <<>>
    ELSE LET j1 == SkipSpaces(s, i + 1)
             j2 == Find(s, j1 + 1, ")")
         IN IF s[i] = "!" /\ j1 <= Len(s) /\ s[j1] = "(" /\ j2 > j1 + 1
            THEN <<"n", "o", "t", " ", "(">> \o SubSeq(s, j1 + 1, j2 - 1) \o <<")">>
                 \o sub_not_group(s, j2 + 1)
            ELSE <<s[i]>> \o sub_not_group(s, i + 1)

\* re.sub(r'"([^"]*)"', r'("\1" in text)', s), from position i, for the quote
\* character q
RECURSIVE sub_literal(_, _, _)
sub_literal(s, i, q) ==
    IF i > Len(s) THEN <<>>
    ELSE LET j == Find(s, i + 1, q)
         IN IF s[i] = q /\ j # 0
            THEN <<"(", q>> \o SubSeq(s, i + 1, j - 1) \o <<q>> \o InText
                 \o sub_literal(s, j + 1, q)
            ELSE <<s[i]>> \o sub_literal(s, i + 1, q)

\* LogicalExpressionParser._convert_to_python
convert_to_python(expr) ==
    sub_literal(sub_literal(sub_not_group(sub_not_literal(sub_not_literal(
        expr, 1, Q), 1, SQ), 1), 1, Q), 1, SQ)

\* --- eval(py_expr, {"__builtins__": {}}, {'text': text}): Python's tokens, its
\* grammar and its values, for the expressions _convert_to_python yields
Tok(k, s) == [k |-> k, s |-> s]
Bad == Tok("bad", <<>>)

RECURSIVE WordEnd(_, _)
WordEnd(s, i) == IF i <= Len(s) /\ IsWord(s[i]) THEN WordEnd(s, i + 1) ELSE i

RECURSIVE tokens(_, _)
tokens(s, i) ==
    IF i > Len(s) THEN <<>>
    ELSE IF s[i] = " " THEN tokens(s, i + 1)
    ELSE IF s[i] \in {Q, SQ}
         THEN LET j == Find(s, i + 1, s[i])
              IN IF j = 0 THEN <<Bad>>
                 ELSE <<Tok("str", SubSeq(s, i + 1, j - 1))>> \o tokens(s, j + 1)
    ELSE IF s[i] \in {"(", ")", "&", "|"}
         THEN <<Tok("op", <<s[i]>>)>> \o tokens(s, i + 1)
    ELSE IF IsWord(s[i])
         THEN <<Tok("name", SubSeq(s, i, WordEnd(s, i) - 1))>> \o tokens(s, WordEnd(s, i))
    ELSE <<Bad>>

\* the values: a bool, a str, the empty tuple
Bool(b) == [t |-> "bool", b |-> b, s |-> <<>>]
Str(s) == [t |-> "str", b |-> FALSE, s |-> s]
EmptyTuple == [t |-> "tuple", b |-> FALSE, s |-> <<>>]

\* bool(v)
Truthy(v) == IF v.t = "bool" THEN v.b ELSE v.s # <<>>

\* a parse that ended before position p with the value v; a SyntaxError, a
\* NameError or a TypeError
Got(v, p) == [ok |-> TRUE, v |-> v, p |-> p]
Raised == [ok |-> FALSE, v |-> Bool(FALSE), p |-> 0]

IsOp(t, p, c) == p <= Len(t) /\ t[p] = Tok("op", <<c>>)
IsName(t, p, w) == p <= Len(t) /\ t[p] = Tok("name", w)

RECURSIVE not_test(_, _, _)
RECURSIVE comparison(_, _, _)
RECURSIVE or_expr(_, _, _)
RECURSIVE or_rest(_, _, _)
RECURSIVE and_expr(_, _, _)
RECURSIVE and_rest(_, _, _)
RECURSIVE atom(_, _, _)

\* atom: a string, the name text, a parenthesized expression, ()
atom(t, p, text) ==
    IF p > Len(t) THEN Raised
    ELSE IF t[p].k = "str" THEN Got(Str(t[p].s), p + 1)
    ELSE IF IsName(t, p, <<"t", "e", "x", "t">>) THEN Got(Str(text), p + 1)
    ELSE IF IsOp(t, p, "(")
         THEN IF IsOp(t, p + 1, ")") THEN Got(EmptyTuple, p + 2)
              ELSE LET r == not_test(t, p + 1, text)
                   IN IF r.ok /\ IsOp(t, r.p, ")") THEN Got(r.v, r.p + 1) ELSE Raised
    ELSE Raised

\* and_expr: atom ('&' atom)*, on bools
and_rest(t, l, text) ==
    IF ~l.ok \/ ~IsOp(t, l.p, "&") THEN l
    ELSE LET r == atom(t, l.p + 1, text)
         IN IF r.ok /\ l.v.t = "bool" /\ r.v.t = "bool"
            THEN and_rest(t, Got(Bool(l.v.b /\ r.v.b), r.p), text)
            ELSE Raised
and_expr(t, p, text) == and_rest(t, atom(t, p, text), text)

\* expr: and_expr ('|' and_expr)*, on bools
or_rest(t, l, text) ==
    IF ~l.ok \/ ~IsOp(t, l.p, "|") THEN l
    ELSE LET r == and_expr(t, l.p + 1, text)
         IN IF r.ok /\ l.v.t = "bool" /\ r.v.t = "bool"
            THEN or_rest(t, Got(Bool(l.v.b \/ r.v.b), r.p), text)
            ELSE Raised
or_expr(t, p, text) == or_rest(t, and_expr(t, p, text), text)

\* comparison: expr [('in' | 'not' 'in') expr], of a str in a str
comparison(t, p, text) ==
    LET l == or_expr(t, p, text)
        negated == l.ok /\ IsName(t, l.p, <<"n", "o", "t">>)
        q == IF negated THEN l.p + 1 ELSE l.p
    IN IF ~l.ok \/ ~IsName(t, q, <<"i", "n">>) THEN (IF negated THEN Raised ELSE l)
       ELSE LET r == or_expr(t, q + 1, text)
            IN IF r.ok /\ l.v.t = "str" /\ r.v.t = "str"
               THEN Got(Bool(Contains(r.v.s, l.v.s) # negated), r.p)
               ELSE Raised

\* not_test: 'not' not_test | comparison
not_test(t, p, text) ==
    IF IsName(t, p, <<"n", "o", "t">>)
    THEN LET r == not_test(t, p + 1, text)
         IN IF r.ok THEN Got(Bool(~Truthy(r.v)), r.p) ELSE Raised
    ELSE comparison(t, p, text)

\* LogicalExpressionParser._evaluate: False on any exception
evaluate(expr, text) ==
    LET t == tokens(convert_to_python(expr), 1)
        r == not_test(t, 1, text)
    IN IF r.ok /\ r.p = Len(t) + 1 THEN r.v ELSE Bool(FALSE)

\* LogicalExpressionParser(expression).parse(), applied to a text and tested by
\* `if self.matcher(line)`
logical_matcher(expression, text) == Truthy(evaluate(preprocess(Strip(expression)), text))

\* self.matcher: the parsed expression in logical mode, else
\* lambda text: keyword in text
matcher(text) ==
    IF is_logical THEN logical_matcher(keyword, text) ELSE Contains(text, keyword)

\* self.ignore_matcher is None
ignore_matcher_is_none == ~(ignore_keyword # <<>> /\ Strip(ignore_keyword) # <<>>)

\* SearchThread._should_ignore
should_ignore(line) ==
    IF ignore_matcher_is_none THEN FALSE ELSE Contains(line, ignore_keyword)

\* filtered_out with a fault C11 excludes: the filter tested as it was typed
filtered_out_Untrimmed(name) ==
    file_filter # <<>> /\ Strip(file_filter) # <<>> /\ ~Contains(name, file_filter)

\* the file filter of run(): the file is skipped
filtered_out(name) ==
    file_filter # <<>> /\ Strip(file_filter) # <<>> /\ ~Contains(name, Strip(file_filter))

Fallbacks == <<"utf-8", "gbk", "gb2312", "gb18030">>

\* the de-duplication loop of _search_file: first occurrence wins
RECURSIVE Dedupe(_, _)
Dedupe(encs, seen) ==
    IF encs = <<>> THEN <<>>
    ELSE IF Head(encs) # "" /\ Head(encs) \notin seen
         THEN <<Head(encs)>> \o Dedupe(Tail(encs), seen \cup {Head(encs)})
         ELSE Dedupe(Tail(encs), seen)

\* the codec open() finds under a name: the names are looked up without regard
\* to case
Codec(e) == IF e = "GB2312" THEN "gb2312" ELSE e

\* unique_encodings: the encodings, de-duplicated
candidate_encodings(encs) == Dedupe(encs, {})

\* ------------------------------------------------------------ the file tree
Files(n) == [name : FileNames, lines : SeqsUpTo(LineTexts, n)]

\* the file lists of at most nf files and nl lines
RECURSIVE FileLists(_, _)
FileLists(nf, nl) ==
    IF nf = 0 THEN {<<>>}
    ELSE {<<>>} \cup
         UNION {{<<x>> \o r : r \in FileLists(nf - 1, nl - Len(x.lines))} : x \in Files(nl)}

\* a file list cut into directories of the given sizes
RECURSIVE Split(_, _)
Split(list, sizes) ==
    IF sizes = <<>> THEN <<>>
    ELSE <<SubSeq(list, 1, Head(sizes))>>
         \o Split(SubSeq(list, Head(sizes) + 1, Len(list)), Tail(sizes))

Trees ==
    UNION {{Split(l, s) : s \in {z \in SeqsUpTo(0..Len(l), MaxDirs) : SumSeq(z) = Len(l)}}
           : l \in FileLists(MaxFiles, MaxLines)}

cur_file == tree[d][f]
cur_lines == cur_file.lines

\* ------------------------------------------------------------------ signals
NoEvent == [type |-> "", file |-> <<0, 0>>, line_number |-> 0, pos |-> 0,
            line |-> <<>>, before |-> <<>>, after |-> <<>>, count |-> 0,
            cancelled |-> FALSE]

\* search_finished.emit(count, cancelled)
Finished(count, cancelled) ==
    [NoEvent EXCEPT !.type = "finished", !.count = count, !.cancelled = cancelled]

\* search_error.emit(...)
Error(file) == [NoEvent EXCEPT !.type = "error", !.file = file]

\* search_progress.emit(result, result_count + 1): the record names the file, the
\* line number printed, the line, and the context lines with their printed numbers;
\* pos is the line's position in the file.
Progress(file, num, pos, line, before, after, count) ==
    [NoEvent EXCEPT !.type = "progress", !.file = file, !.line_number = num,
                    !.pos = pos, !.line = line, !.before = before,
                    !.after = after, !.count = count]

\* KeywordHistory.load() when HISTORY_FILE does not exist
EmptyHistory == [keywords |-> <<>>, ignore_keywords |-> <<>>]
NoCall == [list |-> "", value |-> <<>>]

\* --------------------------------------------------------------------- Init
\* KeywordSearchApp.__init__: no thread, nothing buffered, nothing displayed
Window ==
    /\ selected_target = FALSE
    /\ search_thread = 0
    /\ threads = <<>>
    /\ queue = <<>>
    /\ result_buffer = <<>>
    /\ display_count = 0
    /\ is_display_limited = FALSE
    /\ result_box = <<>>
    /\ received = <<>>

\* a SearchThread just constructed and not yet started, its locals unset, in a
\* window just constructed
Idle ==
    /\ Window
    /\ is_running = TRUE
    /\ pc = "run"
    /\ result_count = 0
    /\ d = 0
    /\ f = 0
    /\ encodings = <<>>
    /\ unique_encodings = <<>>
    /\ enc = 0
    /\ fpos = 0
    /\ line_number = 0
    /\ rc = 0
    /\ context_buffer = <<>>
    /\ collected = 0
    /\ future_lines = <<>>
    /\ emitted = <<>>
    /\ started = <<>>
    /\ unchecked = 0
    /\ halted = FALSE

\* the job and the errors its run may meet
FreshJob ==
    /\ Idle
    /\ faults = MaxFaults

\* a job not yet started and an empty history
Fresh ==
    /\ FreshJob
    /\ history = EmptyHistory
    /\ added = NoCall
    /\ calls = 0

Init ==
    /\ is_folder \in BOOLEAN
    /\ tree \in IF is_folder THEN Trees ELSE {<<<<x>>>> : x \in Files(MaxLines)}
    /\ keyword \in Keywords
    /\ is_logical = FALSE
    /\ ignore_keyword \in IgnoreKeywords
    /\ file_filter \in FileFilters
    \* jobs with a file filter are plain scans
    /\ file_filter # <<>> => (context_lines = 0 /\ ignore_keyword = <<>>)
    \* a file's name is read by the file filter alone: with no filter, one name
    /\ file_filter = <<>> =>
           \A i \in 1..Len(tree) : \A j \in 1..Len(tree[i]) : tree[i][j].name = <<"a">>
    /\ context_lines \in 0..MaxContext
    /\ Fresh

\* the locals of _search_file and of the scanners, gone when they return
ResetLocals ==
    /\ encodings' = <<>>
    /\ unique_encodings' = <<>>
    /\ enc' = 0
    /\ fpos' = 0
    /\ line_number' = 0
    /\ rc' = 0
    /\ context_buffer' = <<>>
    /\ collected' = 0
    /\ future_lines' = <<>>
    /\ unchecked' = 0

\* _search_file(file_path, result_count) is called
CallSearchFile(dd, ff) ==
    /\ started' = Append(started,
           [file |-> <<dd, ff>>, running |-> is_running, retries |-> 0])
    /\ pc' = "sniff"

\* Return with a fault C1 excludes: search_finished emitted inside the loop,
\* after every file
Return_FinishEveryFile(r, events) ==
    /\ result_count' = r
    /\ ResetLocals
    /\ emitted' = emitted \o events \o <<Finished(r, FALSE)>>
    /\ IF is_folder
       THEN /\ pc' = "files"
            /\ f' = f + 1
       ELSE /\ pc' = "done"
            /\ f' = f

\* _search_file returns r to run() after emitting events: in folder mode the
\* for-file loop goes on; in single-file mode run() emits search_finished.
Return(r, events) ==
    /\ result_count' = r
    /\ ResetLocals
    /\ IF is_folder
       THEN /\ pc' = "files"
            /\ f' = f + 1
            /\ emitted' = emitted \o events
       ELSE /\ pc' = "done"
            /\ f' = f
            /\ emitted' = emitted \o events \o <<Finished(r, FALSE)>>

\* ---------------------------------------------------------- SearchThread.run
\* run(), folder mode: result_count = 0, os.walk begins
RunFolder ==
    /\ pc = "run"
    /\ is_folder
    /\ pc' = "walk"
    /\ d' = 1
    /\ result_count' = 0
    /\ UNCHANGED <<config, app, is_running, f, encodings, unique_encodings, enc, scanner, emitted,
                   started, unchecked, halted, faults>>

\* run(), single-file mode: _search_file(self.target, result_count)
RunSingle ==
    /\ pc = "run"
    /\ ~is_folder
    /\ d' = 1
    /\ f' = 1
    /\ result_count' = 0
    /\ CallSearchFile(1, 1)
    /\ UNCHANGED <<config, app, is_running, encodings, unique_encodings, enc, scanner, emitted,
                   unchecked, halted, faults>>

\* os.walk is exhausted: search_finished.emit(result_count, False)
WalkEnd ==
    /\ pc = "walk"
    /\ d > Len(tree)
    /\ emitted' = Append(emitted, Finished(result_count, FALSE))
    /\ pc' = "done"
    /\ UNCHANGED <<config, app, is_running, result_count, d, f, encodings, unique_encodings, enc,
                   scanner, started, unchecked, halted, faults>>

\* os.walk yields a directory and the flag is found cleared
WalkCancelled ==
    /\ pc = "walk"
    /\ d <= Len(tree)
    /\ ~is_running
    /\ emitted' = Append(emitted, Finished(result_count, TRUE))
    /\ pc' = "done"
    /\ UNCHANGED <<config, app, is_running, result_count, d, f, encodings, unique_encodings, enc,
                   scanner, started, unchecked, halted, faults>>

\* os.walk yields a directory and the flag is set: the for-file loop begins
WalkEnter ==
    /\ pc = "walk"
    /\ d <= Len(tree)
    /\ is_running
    /\ f' = 1
    /\ pc' = "files"
    /\ UNCHANGED <<config, app, is_running, result_count, d, encodings, unique_encodings, enc,
                   scanner, emitted, started, unchecked, halted, faults>>

\* the for-file loop is exhausted: back to os.walk
FilesEnd ==
    /\ pc = "files"
    /\ f > Len(tree[d])
    /\ d' = d + 1
    /\ pc' = "walk"
    /\ UNCHANGED <<config, app, is_running, result_count, f, encodings, unique_encodings, enc,
                   scanner, emitted, started, unchecked, halted, faults>>

\* the for-file loop finds the flag cleared
FilesCancelled ==
    /\ pc = "files"
    /\ f <= Len(tree[d])
    /\ ~is_running
    /\ emitted' = Append(emitted, Finished(result_count, TRUE))
    /\ pc' = "done"
    /\ UNCHANGED <<config, app, is_running, result_count, d, f, encodings, unique_encodings, enc,
                   scanner, started, unchecked, halted, faults>>

\* the file fails the file filter: continue
FilesSkip ==
    /\ pc = "files"
    /\ f <= Len(tree[d])
    /\ is_running
    /\ filtered_out(cur_file.name)
    /\ f' = f + 1
    /\ UNCHANGED <<config, app, is_running, pc, result_count, d, encodings, unique_encodings, enc,
                   scanner, emitted, started, unchecked, halted, faults>>

\* the file passes: result_count = self._search_file(file_path, result_count)
FilesSearch ==
    /\ pc = "files"
    /\ f <= Len(tree[d])
    /\ is_running
    /\ ~filtered_out(cur_file.name)
    /\ CallSearchFile(d, f)
    /\ UNCHANGED <<config, app, is_running, result_count, d, f, encodings, unique_encodings, enc,
                   scanner, emitted, unchecked, halted, faults>>

\* -------------------------------------------------- SearchThread._search_file
\* the sniff: chardet's guess (none when the open or the read fails), then the
\* fallbacks
SniffEncodings ==
    /\ pc = "sniff"
    /\ \E det \in Detected :
           encodings' = (IF det # "" THEN <<det>> ELSE <<>>) \o Fallbacks
    /\ pc' = "dedupe"
    /\ UNCHANGED <<config, app, is_running, result_count, d, f, unique_encodings, enc,
                   scanner, emitted, started, unchecked, halted, faults>>

\* the de-duplication loop; encodings is not read after it
DedupeEncodings ==
    /\ pc = "dedupe"
    /\ unique_encodings' = candidate_encodings(encodings)
    /\ encodings' = <<>>
    /\ enc' = 1
    /\ pc' = "open"
    /\ UNCHANGED <<config, app, is_running, result_count, d, f, scanner, emitted,
                   started, unchecked, halted, faults>>

\* the attempt is the final one, open(..., encoding='utf-8', errors='ignore')
lossy == enc > Len(unique_encodings)

\* open(file_path, 'r', encoding=...) succeeds and the scanner is entered
OpenOk ==
    /\ pc = "open"
    /\ pc' = "scan"
    /\ fpos' = 0
    /\ line_number' = 0
    /\ rc' = result_count
    /\ context_buffer' = <<>>
    /\ collected' = 0
    /\ future_lines' = <<>>
    /\ unchecked' = 0
    /\ UNCHANGED <<config, app, is_running, result_count, d, f, encodings, unique_encodings, enc,
                   emitted, started, halted, faults>>

\* the worker is opening the file or reading a line of it
reading == pc \in {"open", "scan"} \/ (pc = "ahead" /\ collected < context_lines)

\* DecodeError with a fault C23 excludes: when the last candidate fails the
\* failure is reported and the file given up
DecodeError_Reports ==
    /\ reading
    /\ ~lossy
    /\ faults > 0
    /\ faults' = faults - 1
    /\ started' = [started EXCEPT ![Len(started)].retries = @ + 1]
    /\ IF enc = Len(unique_encodings)
       THEN Return(result_count, <<Error(<<d, f>>)>>)
       ELSE /\ enc' = enc + 1
            /\ pc' = "open"
            /\ fpos' = 0
            /\ line_number' = 0
            /\ rc' = 0
            /\ context_buffer' = <<>>
            /\ collected' = 0
            /\ future_lines' = <<>>
            /\ unchecked' = 0
            /\ UNCHANGED <<result_count, f, encodings, unique_encodings, emitted>>
    /\ UNCHANGED <<config, app, is_running, d, halted>>

\* the open, or a read of the scanner, raises UnicodeDecodeError or LookupError
\* under a candidate encoding: continue with the next encoding
DecodeError ==
    /\ reading
    /\ ~lossy
    /\ faults > 0
    /\ faults' = faults - 1
    /\ enc' = enc + 1
    /\ pc' = "open"
    /\ fpos' = 0
    /\ line_number' = 0
    /\ rc' = 0
    /\ context_buffer' = <<>>
    /\ collected' = 0
    /\ future_lines' = <<>>
    /\ unchecked' = 0
    /\ started' = [started EXCEPT ![Len(started)].retries = @ + 1]
    /\ UNCHANGED <<config, app, is_running, result_count, d, f, encodings, unique_encodings,
                   emitted, halted>>

\* ReadError with a fault C5 excludes: the error ends the whole job
ReadError_Abort ==
    /\ reading
    /\ faults > 0
    /\ faults' = faults - 1
    /\ emitted' = emitted \o <<Error(<<d, f>>), Finished(result_count, FALSE)>>
    /\ pc' = "done"
    /\ ResetLocals
    /\ UNCHANGED <<config, app, is_running, result_count, d, f, started, halted>>

\* the open, or a read of the scanner, raises another exception:
\* search_error.emit(...); return result_count
ReadError ==
    /\ reading
    /\ faults > 0
    /\ faults' = faults - 1
    /\ Return(result_count, <<Error(<<d, f>>)>>)
    /\ UNCHANGED <<config, app, is_running, d, started, halted>>

\* ----------- SearchThread._search_normal and _search_with_context, their loops
\* the for loop ends: return result_count
ScanEnd ==
    /\ pc = "scan"
    /\ fpos = Len(cur_lines)
    /\ Return(rc, <<>>)
    /\ UNCHANGED <<config, app, is_running, d, started, halted, faults>>

\* a line is read and the flag is found cleared: return result_count
ScanCancelled ==
    /\ pc = "scan"
    /\ fpos < Len(cur_lines)
    /\ ~is_running
    /\ halted' = TRUE
    /\ Return(rc, <<>>)
    /\ UNCHANGED <<config, app, is_running, d, started, faults>>

\* SearchNormalLine with a fault C6 excludes: enumerate(f) counting from 0
SearchNormalLine_FromZero ==
    /\ pc = "scan"
    /\ context_lines = 0
    /\ fpos < Len(cur_lines)
    /\ is_running
    /\ LET line == cur_lines[fpos + 1]
           n == line_number
       IN /\ fpos' = fpos + 1
          /\ line_number' = n + 1
          /\ unchecked' = 0
          /\ IF ~should_ignore(line) /\ matcher(line)
             THEN /\ emitted' = Append(emitted,
                        Progress(<<d, f>>, n, fpos + 1, line, <<>>, <<>>, rc + 1))
                  /\ rc' = rc + 1
             ELSE UNCHANGED <<emitted, rc>>
    /\ UNCHANGED <<config, app, is_running, pc, result_count, d, f, encodings, unique_encodings,
                   enc, context_buffer, collected, future_lines, started, halted,
                   faults>>

\* ------------------------------------------------ SearchThread._search_normal
\* one iteration of _search_normal's loop with the flag set
SearchNormalLine ==
    /\ pc = "scan"
    /\ context_lines = 0
    /\ fpos < Len(cur_lines)
    /\ is_running
    /\ LET line == cur_lines[fpos + 1]
           n == line_number + 1
       IN /\ fpos' = fpos + 1
          /\ line_number' = n
          /\ unchecked' = 0
          /\ IF ~should_ignore(line) /\ matcher(line)
             THEN /\ emitted' = Append(emitted,
                        Progress(<<d, f>>, n, fpos + 1, line, <<>>, <<>>, rc + 1))
                  /\ rc' = rc + 1
             ELSE UNCHANGED <<emitted, rc>>
    /\ UNCHANGED <<config, app, is_running, pc, result_count, d, f, encodings, unique_encodings,
                   enc, context_buffer, collected, future_lines, started, halted, faults>>

\* ------------------------------------------ SearchThread._search_with_context
\* context_buffer.append(x) on a deque(maxlen=context_lines)
deque_append(buf, x) ==
    IF Len(buf) >= context_lines THEN Tail(buf) \o <<x>> ELSE buf \o <<x>>

\* one iteration of _search_with_context's loop with the flag set: an ignored
\* line is skipped, another enters the buffer, a match begins the read-ahead
SearchContextLine ==
    /\ pc = "scan"
    /\ context_lines > 0
    /\ fpos < Len(cur_lines)
    /\ is_running
    /\ LET line == cur_lines[fpos + 1]
           n == line_number + 1
       IN /\ fpos' = fpos + 1
          /\ line_number' = n
          /\ unchecked' = 0
          /\ IF should_ignore(line)
             THEN UNCHANGED <<context_buffer, pc>>
             ELSE /\ context_buffer' = deque_append(context_buffer,
                        [num |-> n, pos |-> fpos + 1, line |-> line])
                  /\ pc' = IF matcher(line) THEN "ahead" ELSE "scan"
    /\ collected' = 0
    /\ future_lines' = <<>>
    /\ UNCHANGED <<config, app, is_running, result_count, d, f, encodings, unique_encodings, enc,
                   rc, emitted, started, halted, faults>>

\* AheadRead with a fault C8 excludes: a skipped ignored line counted as collected
AheadRead_CountsIgnored ==
    /\ pc = "ahead"
    /\ collected < context_lines
    /\ fpos < Len(cur_lines)
    /\ LET future_line == cur_lines[fpos + 1]
           future_line_num == line_number + collected + 1
       IN /\ fpos' = fpos + 1
          /\ unchecked' = unchecked + 1
          /\ collected' = collected + 1
          /\ IF should_ignore(future_line)
             THEN UNCHANGED future_lines
             ELSE future_lines' = Append(future_lines,
                      [num |-> future_line_num, pos |-> fpos + 1, line |-> future_line])
    /\ UNCHANGED <<config, app, is_running, pc, result_count, d, f, encodings, unique_encodings,
                   enc, line_number, rc, context_buffer, emitted, started, halted,
                   faults>>

\* the read-ahead reads one line: future_line = next(f); an ignored line is
\* skipped, another is kept under the number line_number + collected + 1
AheadRead ==
    /\ pc = "ahead"
    /\ collected < context_lines
    /\ fpos < Len(cur_lines)
    /\ LET future_line == cur_lines[fpos + 1]
           future_line_num == line_number + collected + 1
       IN /\ fpos' = fpos + 1
          /\ unchecked' = unchecked + 1
          /\ IF should_ignore(future_line)
             THEN UNCHANGED <<future_lines, collected>>
             ELSE /\ future_lines' = Append(future_lines,
                        [num |-> future_line_num, pos |-> fpos + 1, line |-> future_line])
                  /\ collected' = collected + 1
    /\ UNCHANGED <<config, app, is_running, pc, result_count, d, f, encodings, unique_encodings,
                   enc, line_number, rc, context_buffer, emitted, started, halted, faults>>

\* the lines of the buffer printed before the match: those numbered below it
preceding(buf, n) == SelectSeq(buf, LAMBDA c : c.num < n)

\* AheadEmit with a fault C22 excludes: the read-ahead ran on a copy of the
\* stream, so the main loop goes on from the line after the match
AheadEmit_Rewind ==
    /\ pc = "ahead"
    /\ collected >= context_lines \/ fpos = Len(cur_lines)
    /\ LET m == context_buffer[Len(context_buffer)]
       IN /\ emitted' = Append(emitted,
                 Progress(<<d, f>>, m.num, m.pos, m.line,
                          preceding(context_buffer, m.num), future_lines, rc + 1))
          /\ fpos' = m.pos
    /\ rc' = rc + 1
    /\ pc' = "scan"
    /\ UNCHANGED <<config, app, is_running, result_count, d, f, encodings, unique_encodings, enc,
                   line_number, context_buffer, collected, future_lines,
                   started, unchecked, halted, faults>>

\* the read-ahead is over (collected enough, or StopIteration): the block is
\* emitted and the main loop goes on
AheadEmit ==
    /\ pc = "ahead"
    /\ collected >= context_lines \/ fpos = Len(cur_lines)
    /\ LET m == context_buffer[Len(context_buffer)]
       IN emitted' = Append(emitted,
              Progress(<<d, f>>, m.num, m.pos, m.line,
                       preceding(context_buffer, m.num), future_lines, rc + 1))
    /\ rc' = rc + 1
    /\ pc' = "scan"
    /\ UNCHANGED <<config, app, is_running, result_count, d, f, encodings, unique_encodings, enc,
                   fpos, line_number, context_buffer, collected, future_lines,
                   started, unchecked, halted, faults>>

\* ---------------------------------------------------------- SearchThread.stop
\* Stop with a fault C19 excludes: a second call sets the flag again
Stop_Toggle ==
    /\ is_running' = ~is_running
    /\ UNCHANGED <<config, app, pc, result_count, d, f, encodings, unique_encodings,
                   enc, scanner, emitted, started, unchecked, halted, faults>>

Stop ==
    /\ is_running' = FALSE
    /\ UNCHANGED <<config, app, pc, result_count, d, f, encodings, unique_encodings, enc, scanner,
                   emitted, started, unchecked, halted, faults>>

Worker ==
    \/ RunFolder
    \/ RunSingle
    \/ WalkEnd
    \/ WalkCancelled
    \/ WalkEnter
    \/ FilesEnd
    \/ FilesCancelled
    \/ FilesSkip
    \/ FilesSearch
    \/ SniffEncodings
    \/ DedupeEncodings
    \/ OpenOk
    \/ DecodeError
    \/ ReadError
    \/ ScanEnd
    \/ ScanCancelled
    \/ SearchNormalLine
    \/ SearchContextLine
    \/ AheadRead
    \/ AheadEmit

Next == Worker \/ Stop

Spec == Init /\ [][Next]_vars

\* the worker thread runs until run() returns
FairSpec == Spec /\ WF_vars(Worker)

\* ------------------------------------- the modes of the keyword and the filter
\* The jobs of ModeSpec run over small targets and take the file filter, the
\* keyword and the logical expressions in every form.
ModeNames == {<<"a">>, <<"b">>, <<"a", "b">>}
ModeFilters == {<<>>, <<" ">>, <<"b">>, <<" ", "b">>, <<"a", "b">>}
ModeKeywords == {<<>>, <<"k">>}

\* logical expressions as the user types them
Lit(x) == <<Q>> \o x \o <<Q>>
Conj(a, b) == Lit(a) \o <<" ", "a", "n", "d", " ">> \o Lit(b)
ConjAmp(a, b) == Lit(a) \o <<" ", "&", " ">> \o Lit(b)
Disj(a, b) == Lit(a) \o <<" ", "o", "r", " ">> \o Lit(b)
DisjBar(a, b) == Lit(a) \o <<" ", "|", " ">> \o Lit(b)
Neg(a) == <<"n", "o", "t", "(">> \o Lit(a) \o <<")">>
Bang(x) == <<"!", "(">> \o x \o <<")">>
Paren(x) == <<"(">> \o x \o <<")">>
AndThen(x, c) == x \o <<" ", "a", "n", "d", " ">> \o Lit(c)

Literals == {<<"a">>, <<"b">>}
\* texts of a literal with the words and the characters of the operators
LiteralTexts == {<<"a">>, <<"o", "r">>, <<"a", "&", "b">>, <<"(", "a", ")">>, <<"!", "a">>}
\* unbalanced parentheses, a missing operand, a missing operator, a missing
\* quote, unknown tokens
Malformed ==
    {<<"(">> \o Lit(<<"a">>),
     Lit(<<"a">>) \o <<")">>,
     Lit(<<"a">>) \o <<" ", "a", "n", "d">>,
     <<"o", "r", " ">> \o Lit(<<"a">>),
     Lit(<<"a">>) \o <<" ">> \o Lit(<<"b">>),
     <<Q, "a">>,
     <<"x">>,
     <<"t", "e", "x", "t">>,
     Lit(<<"a">>) \o <<" ", "x", " ">> \o Lit(<<"b">>)}

Expressions ==
    {Conj(a, b) : a, b \in Literals} \cup {ConjAmp(a, b) : a, b \in Literals}
    \cup {Disj(a, b) : a, b \in Literals} \cup {DisjBar(a, b) : a, b \in Literals}
    \cup {Neg(a) : a \in Literals} \cup {Bang(Lit(a)) : a \in Literals}
    \cup {AndThen(Bang(Lit(<<"a">>)), <<"c">>),
          AndThen(Bang(Disj(<<"a">>, <<"b">>)), <<"c">>),
          AndThen(Paren(Disj(<<"a">>, <<"b">>)), <<"c">>),
          AndThen(Disj(<<"a">>, <<"b">>), <<"c">>)}
    \cup {Lit(x) : x \in LiteralTexts}
    \cup {<<SQ, "a", SQ>> \o <<" ", "a", "n", "d", " ">> \o <<SQ, "b", SQ>>}
    \cup Malformed

\* the lines the logical expressions are tried on
LogicLines ==
    {<<>>, <<"a">>, <<"b">>, <<"c">>, <<"a", "b">>, <<"a", "c">>, <<"b", "c">>,
     <<"a", "b", "c">>} \cup LiteralTexts

\* the trees of the file lists, cut into at most MaxDirs directories
TreesOf(lists) ==
    UNION {{Split(l, s) : s \in {z \in SeqsUpTo(0..Len(l), MaxDirs) : SumSeq(z) = Len(l)}}
           : l \in lists}

OneFile(files) == {<<<<x>>>> : x \in files}

\* jobs with a file filter: plain scans of files of at most one line
FilterJobs ==
    /\ is_logical = FALSE
    /\ keyword = <<"k">>
    /\ file_filter \in ModeFilters
    /\ is_folder \in BOOLEAN
    /\ LET files == [name : ModeNames, lines : SeqsUpTo({<<"k">>}, 1)]
       IN tree \in IF is_folder THEN TreesOf(SeqsUpTo(files, MaxFiles)) ELSE OneFile(files)
    /\ context_lines = 0
    /\ ignore_keyword = <<>>

\* jobs in logical mode: one file of one line
LogicalJobs ==
    /\ is_logical = TRUE
    /\ keyword \in Expressions
    /\ file_filter = <<>>
    /\ is_folder = FALSE
    /\ tree \in OneFile([name : {<<"a">>}, lines : {<<l>> : l \in LogicLines}])
    /\ context_lines = 0
    /\ ignore_keyword = <<>>

\* jobs in plain mode, the empty keyword among the keywords
PlainJobs ==
    /\ is_logical = FALSE
    /\ keyword \in ModeKeywords
    /\ file_filter = <<>>
    /\ is_folder = FALSE
    /\ tree \in OneFile([name : {<<"a">>}, lines : SeqsUpTo(LineTexts, MaxLines)])
    /\ context_lines \in 0..MaxContext
    /\ ignore_keyword \in IgnoreKeywords

ModeInit == (FilterJobs \/ LogicalJobs \/ PlainJobs) /\ Fresh

ModeSpec == ModeInit /\ [][Next]_vars

\* ------------------------------------------- files no candidate encoding decodes
\* The jobs of LossySpec meet errors enough for every candidate encoding of a
\* file to fail and the final attempt with errors='ignore' to fail or to run.
LossyJobs ==
    /\ is_logical = FALSE
    /\ keyword = <<"k">>
    /\ is_folder \in BOOLEAN
    /\ IF is_folder
       THEN /\ file_filter = <<"b">>
            /\ tree \in TreesOf(SeqsUpTo([name : ModeNames, lines : {<<<<"k">>>>}], MaxFiles))
            /\ context_lines = 0
       ELSE /\ file_filter = <<>>
            /\ tree \in OneFile([name : {<<"a">>}, lines : SeqsUpTo({<<"a">>, <<"k">>}, 2)])
            /\ context_lines \in 0..1
    /\ ignore_keyword = <<>>

LossyInit ==
    /\ LossyJobs
    /\ Idle
    /\ faults = MaxRetryFaults
    /\ history = EmptyHistory
    /\ added = NoCall
    /\ calls = 0

LossySpec == LossyInit /\ [][Next]_vars

\* ------------------------------------------------------------ KeywordHistory
\* the keywords typed: MAX_HISTORY + 1 words, a word with a space before it,
\* the empty text, a blank text
Word(n) == [i \in 1..n |-> "k"]
HistoryInputs ==
    {Word(n) : n \in 1..(MAX_HISTORY + 1)} \cup {<<" ", "k">>, <<>>, <<" ">>}

\* the list after Word(1), ..., Word(n) were added in this order
Filled(n) == [i \in 1..n |-> Word(n + 1 - i)]

\* list.remove(v): the first v is removed
RemoveFirst(list, v) ==
    LET i == Find(list, 1, v)
    IN SubSeq(list, 1, i - 1) \o SubSeq(list, i + 1, Len(list))

\* add_to_front with a fault C18 excludes: the list is not cut
add_to_front_Uncut(list, v) ==
    <<v>> \o (IF Find(list, 1, v) # 0 THEN RemoveFirst(list, v) ELSE list)

\* the list add_keyword / add_ignore_keyword saves: v removed if present,
\* inserted at 0, the list cut to MAX_HISTORY
add_to_front(list, v) ==
    LET inserted == <<v>> \o (IF Find(list, 1, v) # 0 THEN RemoveFirst(list, v) ELSE list)
    IN SubSeq(inserted, 1, IF Len(inserted) < MAX_HISTORY THEN Len(inserted) ELSE MAX_HISTORY)

\* a call of add_keyword (list = "keywords") or add_ignore_keyword
Called(list, v) ==
    /\ calls < MaxCalls
    /\ calls' = calls + 1
    /\ added' = [list |-> list, value |-> v]
    /\ UNCHANGED <<job, ui>>

\* the value is empty or blank: return None
AddBlank(list, v) ==
    /\ Called(list, v)
    /\ v = <<>> \/ Strip(v) = <<>>
    /\ UNCHANGED <<history, faults>>

\* load, the change of the list, save
AddValue(list, v) ==
    /\ Called(list, v)
    /\ ~(v = <<>> \/ Strip(v) = <<>>)
    /\ history' = [history EXCEPT ![list] = add_to_front(@, v)]
    /\ UNCHANGED faults

\* load() meets an exception and returns [], []: the document saved holds v alone
AddLoadFails(list, v) ==
    /\ Called(list, v)
    /\ ~(v = <<>> \/ Strip(v) = <<>>)
    /\ faults > 0
    /\ faults' = faults - 1
    /\ history' = [EmptyHistory EXCEPT ![list] = <<v>>]

\* save() meets an exception and passes: HISTORY_FILE is as it was, or was
\* opened for writing and left with no document in it
AddSaveFails(list, v) ==
    /\ Called(list, v)
    /\ ~(v = <<>> \/ Strip(v) = <<>>)
    /\ faults > 0
    /\ faults' = faults - 1
    /\ history' \in {history, EmptyHistory}

add_keyword ==
    \E v \in HistoryInputs :
        \/ AddBlank("keywords", v)
        \/ AddValue("keywords", v)
        \/ AddLoadFails("keywords", v)
        \/ AddSaveFails("keywords", v)

add_ignore_keyword ==
    \E v \in HistoryInputs :
        \/ AddBlank("ignore_keywords", v)
        \/ AddValue("ignore_keywords", v)
        \/ AddLoadFails("ignore_keywords", v)
        \/ AddSaveFails("ignore_keywords", v)

\* the histories the runs begin with: empty, one entry, one short of full, full
FillLevels == {0, 1, MAX_HISTORY - 1, MAX_HISTORY}

HistoryInit ==
    /\ \E n, m \in FillLevels :
           /\ history = [keywords |-> Filled(n), ignore_keywords |-> Filled(m)]
           /\ added = IF m > 0 THEN [list |-> "ignore_keywords", value |-> Word(m)]
                      ELSE IF n > 0 THEN [list |-> "keywords", value |-> Word(n)]
                      ELSE NoCall
    /\ calls = 0
    /\ tree = <<>>
    /\ is_folder = TRUE
    /\ keyword = <<"k">>
    /\ is_logical = FALSE
    /\ ignore_keyword = <<>>
    /\ file_filter = <<>>
    /\ context_lines = 0
    /\ FreshJob

HistoryNext == add_keyword \/ add_ignore_keyword

HistorySpec == HistoryInit /\ [][HistoryNext]_vars

\* ---------------------------------------------------------- KeywordSearchApp
\* The window's handlers run one at a time on the window's thread: a click, or
\* the handler of the signal at the head of queue.  A SearchThread of UISpec
\* is its run() as the window sees it: the check points of its loops, the
\* signals it emits, its return.  The labels and the enabling of the inputs,
\* written by the handlers and read by none of them, are left out; HISTORY_FILE
\* is read and written without error.
UIKeywords == {<<>>, <<"k">>}
UIIgnoreKeywords == {<<>>, <<"i">>}

\* SearchThread.__init__ as the window sees it
NewThread == [is_running |-> TRUE, pc |-> "loop", sent |-> 0]

\* the queued signals
Queued(type, thread, result, cancelled) ==
    [type |-> type, thread |-> thread, result |-> result, cancelled |-> cancelled]

\* the paragraphs of result_box that are no result
Prompt == [kind |-> "prompt", result |-> 0]
LimitNotice == [kind |-> "limit", result |-> 0]
ErrorText == [kind |-> "error", result |-> 0]
Result(r) == [kind |-> "result", result |-> r]

\* run() reaches a check of the flag: with the flag set the next line is taken;
\* with the flag cleared the scanner returns and run() emits search_finished,
\* cancelled if a loop of run() made the check
ThreadCheck(i) ==
    /\ i \in DOMAIN threads
    /\ threads[i].pc = "loop"
    /\ IF threads[i].is_running
       THEN /\ threads' = [threads EXCEPT ![i].pc = "line"]
            /\ UNCHANGED queue
       ELSE /\ threads' = [threads EXCEPT ![i].pc = "done"]
            /\ \E c \in BOOLEAN : queue' = Append(queue, Queued("finished", i, 0, c))
    /\ UNCHANGED <<job, faults, history, added, calls, selected_target, search_thread,
                   result_buffer, display_count, is_display_limited, result_box, received>>

\* a line that matches: search_progress.emit(result, result_count + 1)
ThreadProgress(i) ==
    /\ i \in DOMAIN threads
    /\ threads[i].pc = "line"
    /\ threads[i].sent < MaxResults
    /\ threads' = [threads EXCEPT ![i].pc = "loop", ![i].sent = @ + 1]
    /\ queue' = Append(queue, Queued("progress", i, threads[i].sent + 1, FALSE))
    /\ UNCHANGED <<job, faults, history, added, calls, selected_target, search_thread,
                   result_buffer, display_count, is_display_limited, result_box, received>>

\* a line that does not match, or is ignored
ThreadSkip(i) ==
    /\ i \in DOMAIN threads
    /\ threads[i].pc = "line"
    /\ threads' = [threads EXCEPT ![i].pc = "loop"]
    /\ UNCHANGED <<job, faults, history, added, calls, selected_target, search_thread,
                   queue, result_buffer, display_count, is_display_limited, result_box,
                   received>>

\* a read that fails: search_error.emit(...)
ThreadError(i) ==
    /\ i \in DOMAIN threads
    /\ threads[i].pc = "line"
    /\ faults > 0
    /\ faults' = faults - 1
    /\ threads' = [threads EXCEPT ![i].pc = "loop"]
    /\ queue' = Append(queue, Queued("error", i, 0, FALSE))
    /\ UNCHANGED <<job, history, added, calls, selected_target, search_thread,
                   result_buffer, display_count, is_display_limited, result_box, received>>

\* the files are exhausted: search_finished.emit(result_count, False)
ThreadEnd(i) ==
    /\ i \in DOMAIN threads
    /\ threads[i].pc = "loop"
    /\ threads' = [threads EXCEPT ![i].pc = "done"]
    /\ queue' = Append(queue, Queued("finished", i, 0, FALSE))
    /\ UNCHANGED <<job, faults, history, added, calls, selected_target, search_thread,
                   result_buffer, display_count, is_display_limited, result_box, received>>

\* choose_file: the file button is never disabled
choose_file ==
    /\ selected_target' = TRUE
    /\ UNCHANGED <<job, faults, history, added, calls, search_thread, threads, queue,
                   result_buffer, display_count, is_display_limited, result_box, received>>

\* choose_folder: the folder button is disabled while a job exists
choose_folder ==
    /\ search_thread = 0
    /\ selected_target' = TRUE
    /\ UNCHANGED <<job, faults, history, added, calls, search_thread, threads, queue,
                   result_buffer, display_count, is_display_limited, result_box, received>>

\* what KeywordHistory.add_keyword / add_ignore_keyword leaves in HISTORY_FILE
history_with(h, list, v) ==
    IF v = <<>> \/ Strip(v) = <<>> THEN h ELSE [h EXCEPT ![list] = add_to_front(@, v)]

\* batch_insert_results with a fault C25 excludes: the results inserted stay in
\* the buffer
batch_insert_results_KeepsBuffer(buf, dc, lim, box) ==
    LET same == [result_buffer |-> buf, display_count |-> dc,
                 is_display_limited |-> lim, result_box |-> box]
        remaining_capacity == max_display_results - dc
        results_to_insert == IF Len(buf) < remaining_capacity THEN Len(buf)
                             ELSE remaining_capacity
        inserted == box \o [i \in 1..results_to_insert |-> Result(buf[i])]
    IN IF buf = <<>> \/ lim THEN same
       ELSE IF remaining_capacity <= 0
       THEN [same EXCEPT !.is_display_limited = TRUE, !.result_buffer = <<>>,
                         !.result_box = box \o <<LimitNotice>>]
       ELSE IF dc + results_to_insert >= max_display_results
       THEN [result_buffer |-> <<>>, display_count |-> dc + results_to_insert,
             is_display_limited |-> TRUE, result_box |-> inserted \o <<LimitNotice>>]
       ELSE [result_buffer |-> buf,
             display_count |-> dc + results_to_insert,
             is_display_limited |-> FALSE, result_box |-> inserted]

\* batch_insert_results: the window's buffer, count, flag and box after it
batch_insert_results(buf, dc, lim, box) ==
    LET same == [result_buffer |-> buf, display_count |-> dc,
                 is_display_limited |-> lim, result_box |-> box]
        remaining_capacity == max_display_results - dc
        results_to_insert == IF Len(buf) < remaining_capacity THEN Len(buf)
                             ELSE remaining_capacity
        inserted == box \o [i \in 1..results_to_insert |-> Result(buf[i])]
    IN IF buf = <<>> \/ lim THEN same
       ELSE IF remaining_capacity <= 0
       THEN [same EXCEPT !.is_display_limited = TRUE, !.result_buffer = <<>>,
                         !.result_box = box \o <<LimitNotice>>]
       ELSE IF dc + results_to_insert >= max_display_results
       THEN [result_buffer |-> <<>>, display_count |-> dc + results_to_insert,
             is_display_limited |-> TRUE, result_box |-> inserted \o <<LimitNotice>>]
       ELSE [result_buffer |-> SubSeq(buf, results_to_insert + 1, Len(buf)),
             display_count |-> dc + results_to_insert,
             is_display_limited |-> FALSE, result_box |-> inserted]

\* the window takes the buffer, count, flag and box of the record
Shows(w) ==
    /\ result_buffer' = w.result_buffer
    /\ display_count' = w.display_count
    /\ is_display_limited' = w.is_display_limited
    /\ result_box' = w.result_box

\* start_search with the texts of the two inputs
start_search(kw, ign) ==
    IF ~selected_target \/ kw = <<>>
    THEN /\ result_box' = <<Prompt>>
         /\ UNCHANGED <<history, added, calls, search_thread, threads, result_buffer,
                        display_count, is_display_limited, received>>
    ELSE /\ Len(threads) < MaxJobs
         /\ display_count' = 0
         /\ is_display_limited' = FALSE
         /\ history' = history_with(history_with(history, "keywords", kw),
                                    "ignore_keywords", ign)
         /\ added' = IF ign = <<>> \/ Strip(ign) = <<>>
                     THEN [list |-> "keywords", value |-> kw]
                     ELSE [list |-> "ignore_keywords", value |-> ign]
         /\ calls' = calls + (IF ign = <<>> \/ Strip(ign) = <<>> THEN 1 ELSE 2)
         /\ result_box' = <<>>
         /\ result_buffer' = <<>>
         /\ received' = <<>>
         /\ threads' = Append(threads, NewThread)
         /\ search_thread' = Len(threads) + 1

\* cancel_search: stop() on the thread, the buffer cleared
cancel_search ==
    /\ threads' = [threads EXCEPT ![search_thread].is_running = FALSE]
    /\ result_buffer' = <<>>
    /\ UNCHANGED <<history, added, calls, search_thread, display_count,
                   is_display_limited, result_box, received>>

\* on_search_button_clicked with a fault C24 excludes: a click while a job
\* exists stops it and starts the next at once
on_search_button_clicked_Restarts ==
    /\ \E kw \in UIKeywords, ign \in UIIgnoreKeywords :
           IF search_thread = 0 \/ Len(threads) < MaxJobs
           THEN start_search(kw, ign)
           ELSE cancel_search
    /\ UNCHANGED <<job, faults, selected_target, queue>>

\* on_search_button_clicked
on_search_button_clicked ==
    /\ \E kw \in UIKeywords, ign \in UIIgnoreKeywords :
           IF search_thread = 0
           THEN start_search(kw, ign)
           ELSE cancel_search
    /\ UNCHANGED <<job, faults, selected_target, queue>>

\* on_search_progress(result, count), the signal at the head of the queue
on_search_progress ==
    /\ queue # <<>>
    /\ Head(queue).type = "progress"
    /\ queue' = Tail(queue)
    /\ received' = Append(received, Head(queue).result)
    /\ IF is_display_limited
       THEN UNCHANGED <<result_buffer, display_count, is_display_limited, result_box>>
       ELSE LET buf == Append(result_buffer, Head(queue).result)
            IN IF Len(buf) >= batch_size
               THEN Shows(batch_insert_results(buf, display_count, is_display_limited,
                                               result_box))
               ELSE /\ result_buffer' = buf
                    /\ UNCHANGED <<display_count, is_display_limited, result_box>>
    /\ UNCHANGED <<job, faults, history, added, calls, selected_target, search_thread,
                   threads>>

\* on_search_error(error)
on_search_error ==
    /\ queue # <<>>
    /\ Head(queue).type = "error"
    /\ queue' = Tail(queue)
    /\ result_box' = Append(result_box, ErrorText)
    /\ UNCHANGED <<job, faults, history, added, calls, selected_target, search_thread,
                   threads, result_buffer, display_count, is_display_limited, received>>

\* on_search_finished(count, cancelled): the buffer is flushed, the thread let go
on_search_finished ==
    /\ queue # <<>>
    /\ Head(queue).type = "finished"
    /\ queue' = Tail(queue)
    /\ Shows(batch_insert_results(result_buffer, display_count, is_display_limited,
                                  result_box))
    /\ search_thread' = 0
    /\ UNCHANGED <<job, faults, history, added, calls, selected_target, threads,
                   received>>

UIInit ==
    /\ tree = <<>>
    /\ is_folder = TRUE
    /\ keyword = <<"k">>
    /\ is_logical = FALSE
    /\ ignore_keyword = <<>>
    /\ file_filter = <<>>
    /\ context_lines = 0
    /\ Fresh

UINext ==
    \/ choose_file
    \/ choose_folder
    \/ on_search_button_clicked
    \/ on_search_progress
    \/ on_search_error
    \/ on_search_finished
    \/ \E i \in 1..MaxJobs :
           \/ ThreadCheck(i)
           \/ ThreadProgress(i)
           \/ ThreadSkip(i)
           \/ ThreadError(i)
           \/ ThreadEnd(i)

UISpec == UIInit /\ [][UINext]_vars

\* ------------------------------------------------------- what the claims name
Min(a, b) == IF a < b THEN a ELSE b

EventsAt(type) == {i \in DOMAIN emitted : emitted[i].type = type}
FinishedAt == EventsAt("finished")
ProgressAt == EventsAt("progress")
ErrorAt == EventsAt("error")

\* the records emitted for a file, in order
ProgressOf(file) ==
    SelectSeq(emitted, LAMBDA e : e.type = "progress" /\ e.file = file)

LinesOf(file) == tree[file[1]][file[2]].lines

\* the line is matched by the ignore predicate, by the keyword predicate
Ignored(line) ==
    /\ \E i \in DOMAIN ignore_keyword : ignore_keyword[i] # " "
    /\ Contains(line, ignore_keyword)
Matched(line) == Contains(line, keyword)

Positions(lines) == [i \in 1..Len(lines) |-> i]

\* the positions of the lines a scan has to report, ascending
MatchPositions(lines) ==
    SelectSeq(Positions(lines), LAMBDA q : ~Ignored(lines[q]) /\ Matched(lines[q]))

\* the nearest k non-ignored lines before and after position p
ExpectedBefore(lines, p, k) ==
    LET c == SelectSeq(Positions(lines), LAMBDA q : q < p /\ ~Ignored(lines[q]))
    IN SubSeq(c, Len(c) - Min(k, Len(c)) + 1, Len(c))
ExpectedAfter(lines, p, k) ==
    LET c == SelectSeq(Positions(lines), LAMBDA q : q > p /\ ~Ignored(lines[q]))
    IN SubSeq(c, 1, Min(k, Len(c)))

PosOf(ctx) == [i \in 1..Len(ctx) |-> ctx[i].pos]

\* file a comes before file b in the enumeration
FileBefore(a, b) == a[1] < b[1] \/ (a[1] = b[1] /\ a[2] < b[2])

\* the call of _search_file has returned
Returned(i) == i < Len(started) \/ pc \in {"files", "walk", "done"}

\* the file passes the file filter
Passes(name) ==
    \/ \A i \in DOMAIN file_filter : file_filter[i] = " "
    \/ Contains(name, Strip(file_filter))

\* a search_finished among the emitted signals is the last of them: it was
\* emitted once and nothing was emitted after it
FinishedIsLast == \A i \in FinishedAt : i = Len(emitted)

\* C1: every run emits search_finished exactly once and nothing after it: under
\* a fair worker a search_finished is eventually emitted, and at every moment a
\* search_finished among the emitted signals is the only one and the last signal.
C1_FinishedOnceThenInert == <>(FinishedAt # {}) /\ [](FinishedIsLast)
C1_Witness ==
    /\ pc = "done"
    /\ FinishedAt # {}
    /\ ErrorAt # {}
    /\ ProgressAt # {}
    /\ ~is_running

\* C2: when a scan was halted by a check point that found the flag cleared,
\* search_finished carries cancelled = true.
C2_HaltedScanIsCancelled ==
    halted => \A i \in FinishedAt : emitted[i].cancelled

\* C3: the count of search_finished is the number of search_progress events
\* the job emitted.
C3_CountIsProgressCount ==
    \A i \in FinishedAt : emitted[i].count = Cardinality(ProgressAt)

\* C4: records come in file enumeration order and, within a file, with
\* strictly ascending line numbers.
C4_RecordsInOrder ==
    \A i, j \in ProgressAt :
        i < j => \/ FileBefore(emitted[i].file, emitted[j].file)
                 \/ /\ emitted[i].file = emitted[j].file
                    /\ emitted[i].line_number < emitted[j].line_number

\* the decoding errors met so far, all files together
RECURSIVE Retries(_)
Retries(s) == IF s = <<>> THEN 0 ELSE Head(s).retries + Retries(Tail(s))

\* every failure that was no decoding error gave one search_error, no file has
\* two errors, no signal of a file follows its error, and a job that was never
\* stopped has by its end called _search_file for every file that passes the
\* filter
ErrorEndsThatFileOnly ==
    /\ Cardinality(ErrorAt) = (MaxFaults - faults) - Retries(started)
    /\ \A i, j \in ErrorAt : emitted[i].file = emitted[j].file => i = j
    /\ \A i \in ErrorAt : \A j \in DOMAIN emitted :
           j > i => emitted[j].file # emitted[i].file
    /\ (pc = "done" /\ is_running) =>
           \A i \in DOMAIN tree : \A j \in DOMAIN tree[i] :
               (~is_folder \/ Passes(tree[i][j].name)) =>
                   \E k \in DOMAIN started : started[k].file = <<i, j>>

\* C5: a read error gives one search_error for the file and ends the scan of
\* that file only: the job goes on with the next file and, under a fair worker,
\* search_finished follows the error.
C5_ReadErrorDoesNotAbort ==
    [](ErrorEndsThatFileOnly) /\ ((ErrorAt # {}) ~> (FinishedAt # {}))
C5_Witness ==
    /\ pc = "done"
    /\ \E i \in ErrorAt : \E j \in ProgressAt :
           /\ emitted[i].file = <<1, 1>>
           /\ i < j
    /\ \E i \in FinishedAt : ~emitted[i].cancelled

\* C6: with context_lines = 0, a file whose scan ran to its end under the first
\* encoding tried, with no error and no halt, has one record for each line that
\* is not ignored and matches, none for another line, each carrying the
\* position of its line, in ascending order.
CleanScan(i) ==
    /\ Returned(i)
    /\ started[i].retries = 0
    /\ \A e \in ErrorAt : emitted[e].file # started[i].file
    /\ ~(halted /\ i = Len(started))
C6_NormalScanReportsMatches ==
    context_lines = 0 =>
        \A i \in DOMAIN started :
            CleanScan(i) =>
                LET recs == ProgressOf(started[i].file)
                    lines == LinesOf(started[i].file)
                IN /\ [r \in 1..Len(recs) |-> recs[r].line_number] = MatchPositions(lines)
                   /\ \A r \in 1..Len(recs) :
                          /\ recs[r].pos = recs[r].line_number
                          /\ recs[r].line = lines[recs[r].line_number]
C6_Witness ==
    /\ pc = "done"
    /\ context_lines = 0
    /\ Len(started) = 1
    /\ CleanScan(1)
    /\ LinesOf(started[1].file) = <<<<"k">>, <<"a">>, <<"k">>>>
    /\ Len(ProgressOf(started[1].file)) = 2

\* C7: with context_lines = k > 0 a block shows the nearest min(k, available)
\* non-ignored lines before the match and the nearest min(k, available)
\* non-ignored lines after it.
C7_ContextIsNearestLines ==
    context_lines > 0 =>
        \A i \in ProgressAt :
            LET e == emitted[i]
            IN /\ PosOf(e.before) = ExpectedBefore(LinesOf(e.file), e.pos, context_lines)
               /\ PosOf(e.after) = ExpectedAfter(LinesOf(e.file), e.pos, context_lines)

\* C8: an ignored line is invisible: the matched line of a record is not
\* ignored, no context line of a block is, and the following context is the
\* first min(k, available) non-ignored lines after the match, so a line skipped
\* by the read-ahead takes none of the k places.
C8_IgnoredLinesInvisible ==
    \A i \in ProgressAt :
        LET e == emitted[i]
            lines == LinesOf(e.file)
        IN /\ ~Ignored(e.line)
           /\ e.line = lines[e.pos]
           /\ \A c \in 1..Len(e.before) :
                  ~Ignored(e.before[c].line) /\ e.before[c].line = lines[e.before[c].pos]
           /\ \A c \in 1..Len(e.after) :
                  ~Ignored(e.after[c].line) /\ e.after[c].line = lines[e.after[c].pos]
           /\ PosOf(e.after) = ExpectedAfter(lines, e.pos, context_lines)
C8_Witness ==
    \E i \in ProgressAt :
        LET e == emitted[i]
        IN /\ context_lines = 2
           /\ e.pos = 1
           /\ Len(e.after) = 1
           /\ e.after[1].pos = 3
           /\ Matched(LinesOf(e.file)[2])
           /\ Ignored(LinesOf(e.file)[2])

\* C9: the flag is checked for every line read, the lines of the read-ahead
\* included: no line is read without a check of the flag after it.
C9_EveryReadIsChecked == unchecked = 0

\* C10: the flag is checked before each file is started: _search_file is never
\* called with the flag cleared.
C10_NoFileStartedOnceCancelled ==
    \A i \in DOMAIN started : started[i].running

\* the text is empty or blank
Blank(s) == \A i \in DOMAIN s : s[i] = " "

\* _search_file was called for the file
Scanned(file) == \E k \in DOMAIN started : started[k].file = file

\* the file filter rule, for the text flt the file names are searched for: in
\* folder mode a file is scanned only if the filter is blank or flt is in its
\* name, a file failing that has no signal, and a job that was never stopped
\* has by its end scanned every other file; in single-file mode the target is
\* scanned, whatever the filter, and nothing else
FilterRule(flt) ==
    /\ is_folder =>
           \A i \in DOMAIN tree : \A j \in DOMAIN tree[i] :
               LET pass == Blank(file_filter) \/ Contains(tree[i][j].name, flt)
               IN /\ Scanned(<<i, j>>) => pass
                  /\ ~pass => \A e \in DOMAIN emitted : emitted[e].file # <<i, j>>
                  /\ (pc = "done" /\ is_running /\ pass) => Scanned(<<i, j>>)
    /\ ~is_folder =>
           /\ \A k \in DOMAIN started : k = 1 /\ started[k].file = <<1, 1>>
           /\ pc = "done" => Scanned(<<1, 1>>)

\* C11 as stated: in folder mode a file is scanned iff the filter is empty or
\* blank or the filter is a substring of the file's name; filtered files have no
\* record and no error; in single-file mode the target is the only file scanned.
C11_FilterIsSubstring == FilterRule(file_filter)

\* C11, amended: in folder mode a file is scanned iff the filter is empty or
\* blank or the filter, stripped of the white space around it, is a substring of
\* the file's name; filtered files have no record and no error; in single-file
\* mode the target is the only file scanned.
C11_StrippedFilterIsSubstring == FilterRule(Strip(file_filter))
C11_Witness ==
    /\ pc = "done"
    /\ is_running
    /\ is_folder
    /\ file_filter = <<" ", "b">>
    /\ Scanned(<<1, 2>>) /\ tree[1][2].name = <<"a", "b">>
    /\ ~Scanned(<<1, 1>>) /\ tree[1][1].name = <<"a">>
    /\ ProgressAt # {}

\* a record was emitted for the line at position p of the file
Reported(file, p) ==
    \E i \in ProgressAt : emitted[i].file = file /\ emitted[i].pos = p

\* with context_lines = 0, every file whose scan ran to its end under the first
\* encoding tried, with no error and no halt, has a record for exactly its lines
\* that are not ignored and satisfy Want
ReportsExactly(Want(_)) ==
    context_lines = 0 =>
        \A i \in DOMAIN started :
            CleanScan(i) =>
                LET lines == LinesOf(started[i].file)
                IN \A p \in DOMAIN lines :
                       Reported(started[i].file, p) <=> (~Ignored(lines[p]) /\ Want(lines[p]))

\* C12: in logical mode "A" and "B" and "A" & "B" match the lines that contain
\* both A and B, "A" or "B" and "A" | "B" those that contain at least one,
\* not("A") those that do not contain A.
C12_LogicalOperators ==
    is_logical =>
        \A a, b \in Literals :
            /\ keyword \in {Conj(a, b), ConjAmp(a, b)} =>
                   ReportsExactly(LAMBDA l : Contains(l, a) /\ Contains(l, b))
            /\ keyword \in {Disj(a, b), DisjBar(a, b)} =>
                   ReportsExactly(LAMBDA l : Contains(l, a) \/ Contains(l, b))
            /\ keyword = Neg(a) => ReportsExactly(LAMBDA l : ~Contains(l, a))

\* C13: in logical mode a negation negates its operand only and and binds
\* tighter than or: !("A") and "C" matches the lines without A that contain C,
\* !("A" or "B") and "C" those with neither A nor B that contain C, and
\* "A" or "B" and "C" those that contain A, or both B and C.
C13_NotBindsTighterThanAndThanOr ==
    is_logical =>
        LET A(l) == Contains(l, <<"a">>)
            B(l) == Contains(l, <<"b">>)
            C(l) == Contains(l, <<"c">>)
        IN /\ keyword = AndThen(Bang(Lit(<<"a">>)), <<"c">>) =>
                  ReportsExactly(LAMBDA l : ~A(l) /\ C(l))
           /\ keyword = AndThen(Bang(Disj(<<"a">>, <<"b">>)), <<"c">>) =>
                  ReportsExactly(LAMBDA l : ~A(l) /\ ~B(l) /\ C(l))
           /\ keyword = AndThen(Disj(<<"a">>, <<"b">>), <<"c">>) =>
                  ReportsExactly(LAMBDA l : A(l) \/ (B(l) /\ C(l)))

\* C14: in logical mode the literal "X" matches the lines that contain the text
\* X, also when X holds the word or, or one of the characters & | ! ( ).
C14_LiteralIsItsExactText ==
    is_logical =>
        \A x \in LiteralTexts :
            keyword = Lit(x) => ReportsExactly(LAMBDA l : Contains(l, x))

\* C15: a malformed logical expression matches no line and raises nothing: the
\* job emits no record and no error that the environment did not raise.
C15_MalformedMatchesNothing ==
    (is_logical /\ keyword \in Malformed) =>
        /\ ProgressAt = {}
        /\ Cardinality(ErrorAt) <= MaxFaults - faults

\* C16: a job in plain mode whose keyword is empty matches no line and emits no
\* record.
C16_EmptyKeywordMatchesNothing ==
    (~is_logical /\ keyword = <<>>) =>
        ProgressAt = {}

\* chardet's report read off the list before its de-duplication ("" for none)
DetectedIn(encs) == IF Len(encs) > Len(Fallbacks) THEN Head(encs) ELSE ""

\* the candidate list of a file is well formed for the report det
WellFormed(list, det) ==
    LET rest == IF det # "" THEN Tail(list) ELSE list
    IN /\ list # <<>>
       /\ det # "" => list[1] = det
       /\ rest = SelectSeq(Fallbacks, LAMBDA e : \E i \in DOMAIN rest : rest[i] = e)
       /\ \A i, j \in DOMAIN list : Codec(list[i]) = Codec(list[j]) => i = j
       /\ det = "" => list = Fallbacks

\* C17: the candidate list built for a file is never empty, has the detected
\* encoding first when one was detected, then fallbacks in the order utf-8, gbk,
\* gb2312, gb18030, holds no encoding twice, and is the fallbacks alone when
\* nothing was detected.
C17_CandidateEncodings ==
    [][pc = "dedupe" => WellFormed(unique_encodings', DetectedIn(encodings))]_vars

Range(s) == {s[i] : i \in DOMAIN s}
HistoryLists == {"keywords", "ignore_keywords"}

\* the list after v was added to it: v, then the other entries in their order,
\* MAX_HISTORY entries at most
MovedToFront(list, v) ==
    LET all == <<v>> \o SelectSeq(list, LAMBDA x : x # v)
    IN SubSeq(all, 1, Min(Len(all), MAX_HISTORY))

\* each list has at most MAX_HISTORY entries and no value twice, and the value
\* of the last call, when not blank, is at the front of its list
HistoryInv ==
    /\ \A l \in HistoryLists :
           /\ Len(history[l]) <= MAX_HISTORY
           /\ \A i, j \in DOMAIN history[l] : history[l][i] = history[l][j] => i = j
    /\ (added.list # "" /\ ~Blank(added.value)) =>
           (history[added.list] # <<>> /\ history[added.list][1] = added.value)

\* a call leaves the other list as it was; with a blank value it leaves its own
\* list as it was, with another it moves the value to the front of its list
HistoryStep ==
    calls' = calls + 1 =>
        \A l \in HistoryLists :
            history'[l] = IF l = added'.list /\ ~Blank(added'.value)
                          THEN MovedToFront(history[l], added'.value)
                          ELSE history[l]

C19_CancellationIsMonotone == [][~is_running => ~is_running']_vars
C19_Witness ==
    /\ ~is_running
    /\ pc = "done"
    /\ ProgressAt # {}
    /\ \E i \in FinishedAt : emitted[i].cancelled

\* C20: the records of a file come from one decoding attempt: no line of a file
\* has two records, whatever attempts failed before the one that scanned it.
C20_OneRecordPerLine ==
    \A i, j \in ProgressAt :
        (emitted[i].file = emitted[j].file /\ emitted[i].pos = emitted[j].pos) => i = j

\* C21: with context_lines > 0 every line number printed in a block is the
\* 1-based position of its line in the file: the number of the header and of the
\* marked line, of each preceding context line, of each following context line.
C21_PrintedNumbersArePositions ==
    context_lines > 0 =>
        \A i \in ProgressAt :
            LET e == emitted[i]
            IN /\ e.line_number = e.pos
               /\ \A c \in 1..Len(e.before) : e.before[c].num = e.before[c].pos
               /\ \A c \in 1..Len(e.after) : e.after[c].num = e.after[c].pos

\* a line kept by the read-ahead of a record is the matched line of no record
\* of its file
ConsumedIsNoMatch ==
    \A i, j \in ProgressAt :
        emitted[i].file = emitted[j].file =>
            \A c \in 1..Len(emitted[i].after) : emitted[j].pos # emitted[i].after[c].pos

\* while a scanner runs, a step reads the next line of the stream or none
ReadsInOrder ==
    (pc \in {"scan", "ahead"} /\ pc' \in {"scan", "ahead"}) => fpos' \in {fpos, fpos + 1}

\* C22: with context_lines > 0 each line of the stream is read once, in order,
\* and a line consumed by the read-ahead of a match is the matched line of no
\* record, even if the keyword matches it.
C22_ReadAheadConsumes ==
    [](context_lines > 0 => ConsumedIsNoMatch) /\ [][context_lines > 0 => ReadsInOrder]_vars
C22_Witness ==
    /\ pc = "done"
    /\ context_lines > 0
    /\ Len(started) = 1
    /\ started[1].retries = 0
    /\ \E i \in ProgressAt :
           /\ emitted[i].pos = 1
           /\ \E c \in 1..Len(emitted[i].after) :
                  /\ emitted[i].after[c].pos = 2
                  /\ Matched(emitted[i].after[c].line)
                  /\ ~Ignored(emitted[i].after[c].line)
    /\ Cardinality(ProgressAt) = 1

\* the step is a failure to decode: the call of _search_file under way gives up
\* one more encoding
DecodingFails ==
    /\ Len(started') = Len(started)
    /\ started # <<>>
    /\ started'[Len(started)].retries = started[Len(started)].retries + 1

\* a failure to decode emits nothing and leads to the next attempt on the same
\* file, the attempt with errors='ignore' after the last candidate; that
\* attempt meets no failure to decode
LossyStep ==
    /\ DecodingFails =>
           /\ emitted' = emitted
           /\ pc' = "open"
           /\ <<d', f'>> = <<d, f>>
           /\ enc' = enc + 1
           /\ enc = Len(unique_encodings) => lossy'
    /\ lossy => ~DecodingFails

\* the search_error signals are as many as the failures that were no failure
\* to decode, and no call gave up more encodings than the candidates are
LossyInv ==
    /\ Cardinality(ErrorAt) = (MaxRetryFaults - faults) - Retries(started)
    /\ \A i \in DOMAIN started : started[i].retries <= Len(Fallbacks) + 1
    /\ pc \in {"open", "scan", "ahead"} =>
           /\ started[Len(started)].retries = enc - 1
           /\ enc <= Len(unique_encodings) + 1

\* C23: when every candidate encoding fails to decode a file, the file is
\* scanned once more as utf-8 with errors='ignore', and no search_error is
\* emitted on account of decoding: each search_error is a failure of another
\* kind.
C23_LossyFallback == [](LossyInv) /\ [][LossyStep]_vars
C23_Witness ==
    /\ pc = "scan"
    /\ lossy
    /\ started[Len(started)].retries = Len(unique_encodings)
    /\ ErrorAt = {}
    /\ rc = 1
    /\ Cardinality(ProgressAt) = 1

\* the thread's run() has not returned
Alive(i) == threads[i].pc # "done"

\* a thread the window no longer holds has returned and none of its signals
\* waits in the queue
OnlyTheHeldThreadActs ==
    \A i \in DOMAIN threads :
        i # search_thread =>
            /\ ~Alive(i)
            /\ \A q \in DOMAIN queue : queue[q].thread # i

\* a thread is created only while search_thread is None, and becomes the held
\* one; stop() is called on the held thread only, by a step that creates none;
\* search_thread becomes None only when that thread's search_finished is handled
WindowStep ==
    /\ Len(threads') > Len(threads) =>
           /\ search_thread = 0
           /\ Len(threads') = Len(threads) + 1
           /\ search_thread' = Len(threads')
    /\ \A i \in DOMAIN threads :
           threads'[i].is_running # threads[i].is_running =>
               /\ search_thread = i
               /\ search_thread' = i
               /\ Len(threads') = Len(threads)
    /\ (search_thread # 0 /\ search_thread' # search_thread) =>
           /\ search_thread' = 0
           /\ queue # <<>>
           /\ Head(queue).type = "finished"
           /\ Head(queue).thread = search_thread
           /\ queue' = Tail(queue)

\* C24: the window never has two search jobs alive: a SearchThread is created
\* only while search_thread is None, a click while a job exists only calls
\* stop() on it, and search_thread returns to None only in the handler of that
\* job's search_finished.
C24_OneJobAtATime ==
    /\ [](Cardinality({i \in DOMAIN threads : Alive(i)}) <= 1 /\ OnlyTheHeldThreadActs)
    /\ [][WindowStep]_vars
C24_Witness ==
    /\ Len(threads) = 2
    /\ search_thread = 2
    /\ Alive(2)
    /\ ~threads[1].is_running
    /\ ~threads[2].is_running
    /\ threads[2].sent > 0

\* the results among the paragraphs of the box, in order
Displayed(box) ==
    LET r == SelectSeq(box, LAMBDA x : x.kind = "result")
    IN [i \in 1..Len(r) |-> r[i].result]

\* the step is on_search_finished for a job no click cancelled
FinishesUncancelled ==
    /\ search_thread # 0
    /\ search_thread' = 0
    /\ threads[search_thread].is_running

\* C25: display_count never exceeds max_display_results, and when a job no
\* click cancelled is finished the box shows the first
\* min(n, max_display_results) of the n results received, each once, in the
\* order received.
C25_DisplayIsPrefixOfReceived ==
    /\ [](display_count <= max_display_results)
    /\ [][FinishesUncancelled =>
              Displayed(result_box') =
                  SubSeq(received, 1, Min(Len(received), max_display_results))]_vars
C25_Witness ==
    /\ search_thread = 0
    /\ Len(threads) = 1
    /\ threads[1].is_running
    /\ Len(received) = MaxResults
    /\ display_count = max_display_results
    /\ is_display_limited
    /\ Displayed(result_box) = SubSeq(received, 1, max_display_results)

====
